---- MODULE Spec2Model ----
(***************************************************************************)
(* Model of the JSONL mappers of azureml/components/src/shared:            *)
(*   line_map           (jsonl_utils.py)          sequential mapper        *)
(*   line_map_parallel  (jsonl_utils_parallel.py) joblib-based mapper      *)
(* A caller runs line_map and then line_map_parallel over the same source  *)
(* file with the same map_func and the same error threshold, each with its *)
(* own destination file and its own (initially empty) error file.          *)
(* The source file may be missing, and it may hold blank and malformed     *)
(* lines; the destination may hold the output of an earlier run.           *)
(*                                                                         *)
(* Python values are tuples: <<"dict", v>> is the record {"a": v},         *)
(* <<"None">> is None and <<"set", v>> is an object json.dumps rejects.    *)
(* A text file is the sequence of the strings written to it.               *)
(***************************************************************************)
EXTENDS Integers, Sequences, FiniteSets, Bags, TLC

\* ----------------------------------------------------------------- bounds
NumValues == 3      \* distinct records a source may hold: {"a": 1} .. {"a": NumValues}
MaxLen == 3         \* longest source file, in lines
MaxThreshold == 2   \* thresholds range over -1 .. MaxThreshold
MaxWorkers == 2     \* n_worker_tasks ranges over 1 .. MaxWorkers
MaxRuns == 2        \* line_map is run at most MaxRuns times in succession

VARIABLES
    source,          \* the lines of source_file
    source_exists,   \* whether source_file is on disk
    map_func,        \* what the caller's map_func does with each record
    max_errors,      \* max_errors of line_map and n_errors_max of line_map_parallel
    n_worker_tasks,  \* n_jobs of the joblib pool
    sq,              \* the line_map run
    pl,              \* the line_map_parallel run
    finished         \* the line_map runs that ended before the one in sq

vars == <<source, source_exists, map_func, max_errors, n_worker_tasks, sq, pl, finished>>

inputs == <<source, source_exists, map_func, max_errors, n_worker_tasks>>

\* ------------------------------------------------------------ python values
Records == {<<"dict", v>> : v \in 1..NumValues}

None == <<"None">>

\* What map_func may do with a record: return a new record, return None,
\* raise, or return an object that is not JSON serializable.
Behaviours == {"value", "none", "raise", "unserializable"}

\* json.dumps raises TypeError on an object that is not JSON serializable.
DumpsRaises(x) == x[1] = "set"

\* Every record a file of a run can hold: the inputs and map_func's outputs.
Parseable == {<<"dict", v>> : v \in 1..(2 * NumValues)}

\* The JSON text of each record: {"a": v}.
JsonText == [x \in Parseable |-> "{\"a\": " \o ToString(x[2]) \o "}"]

\* json.dumps(x), for x a record or None.
Dumps(x) == IF x[1] = "dict" THEN JsonText[x] ELSE "null"

\* The record each JSON text stands for.
JsonValue == [text \in {JsonText[x] : x \in Parseable} |->
                 CHOOSE x \in Parseable : JsonText[x] = text]

\* json.loads(line), for a line that holds one JSON object.
Loads(text) == JsonValue[text]

\* A line without text, and a line whose text is cut off in mid-object.
Blank == ""

Malformed == "{\"a\": "

\* json.loads raises JSONDecodeError on a line that holds no JSON document.
LoadsRaises(text) == text \notin DOMAIN JsonValue

\* The caller's map_func applied to item: it doubles field a, or returns
\* None, or raises, or returns a set, as map_func[item] says.
MapFunc(item) ==
    CASE map_func[item] = "value" -> [raised |-> FALSE, value |-> <<"dict", 2 * item[2]>>]
      [] map_func[item] = "none" -> [raised |-> FALSE, value |-> None]
      [] map_func[item] = "unserializable" -> [raised |-> FALSE, value |-> <<"set", item[2]>>]
      [] OTHER -> [raised |-> TRUE, value |-> None]

\* ------------------------------------------------------------------- files
NL == "\n"

\* The lines of a text file, as reading it back line by line gives them: a
\* line ends at each "\n"; text after the last "\n" is a last, unterminated line.
RECURSIVE SplitLines(_, _)
SplitLines(content, cur) ==
    IF content = <<>> THEN (IF cur = "" THEN <<>> ELSE <<cur>>)
    ELSE IF Head(content) = NL THEN <<cur>> \o SplitLines(Tail(content), "")
    ELSE SplitLines(Tail(content), cur \o Head(content))

Lines(content) == SplitLines(content, "")

Handles == {"in_file", "out_file", "err_file"}

\* JSONLReader: the number of the first line after line pos that is not
\* blank, Len(src) + 1 when there is none.
RECURSIVE NextNonBlank(_, _)
NextNonBlank(src, pos) ==
    IF pos >= Len(src) THEN Len(src) + 1
    ELSE IF src[pos + 1] = Blank THEN NextNonBlank(src, pos + 1)
    ELSE pos + 1

\* ------------------------------------------------------------- line_map
\* Mutant of SeqBody: the except branch also writes the record to the destination.
SeqBodyErrAlsoOut(s, nxt, res) ==
    IF ~res.raised /\ (res.value = None \/ ~DumpsRaises(res.value))
    THEN IF res.value # None
         THEN [s EXCEPT !.out_file = @ \o <<Dumps(res.value), NL>>,
                        !.successful_lines = @ + 1,
                        !.log = Append(@, <<s.current_line + 1, "dest">>)]
         ELSE [s EXCEPT !.successful_lines = @ + 1,
                        !.log = Append(@, <<s.current_line + 1, "skip">>)]
    ELSE [s EXCEPT !.out_file = @ \o <<Dumps(nxt), NL>>,
                   !.err_file = @ \o <<Dumps(nxt)>>,
                   !.error_lines = @ + 1,
                   !.log = @ \o <<<<s.current_line + 1, "dest">>,
                                  <<s.current_line + 1, "err">>>>]

\* Mutant of SeqBody: an output is written at the front of the destination.
SeqBodyPrepend(s, nxt, res) ==
    IF ~res.raised /\ (res.value = None \/ ~DumpsRaises(res.value))
    THEN IF res.value # None
         THEN [s EXCEPT !.out_file = <<Dumps(res.value), NL>> \o @,
                        !.successful_lines = @ + 1,
                        !.log = Append(@, <<s.current_line + 1, "dest">>)]
         ELSE [s EXCEPT !.successful_lines = @ + 1,
                        !.log = Append(@, <<s.current_line + 1, "skip">>)]
    ELSE [s EXCEPT !.err_file = @ \o <<Dumps(nxt)>>,
                   !.error_lines = @ + 1,
                   !.log = Append(@, <<s.current_line + 1, "err">>)]

\* Mutant of SeqBody: successful_lines is counted only when a line is written.
SeqBodyNoneNotCounted(s, nxt, res) ==
    IF ~res.raised /\ (res.value = None \/ ~DumpsRaises(res.value))
    THEN IF res.value # None
         THEN [s EXCEPT !.out_file = @ \o <<Dumps(res.value), NL>>,
                        !.successful_lines = @ + 1,
                        !.log = Append(@, <<s.current_line + 1, "dest">>)]
         ELSE [s EXCEPT !.log = Append(@, <<s.current_line + 1, "skip">>)]
    ELSE [s EXCEPT !.err_file = @ \o <<Dumps(nxt)>>,
                   !.error_lines = @ + 1,
                   !.log = Append(@, <<s.current_line + 1, "err">>)]

\* The try/except body of the loop for record nxt, res being the outcome of
\* map_func(nxt): the destination, the error file and the two counters.
SeqBody(s, nxt, res) ==
    IF ~res.raised /\ (res.value = None \/ ~DumpsRaises(res.value))
    THEN IF res.value # None
         THEN [s EXCEPT !.out_file = @ \o <<Dumps(res.value), NL>>,
                        !.successful_lines = @ + 1,
                        !.log = Append(@, <<s.current_line + 1, "dest">>)]
         ELSE [s EXCEPT !.successful_lines = @ + 1,
                        !.log = Append(@, <<s.current_line + 1, "skip">>)]
    ELSE [s EXCEPT !.err_file = @ \o <<Dumps(nxt)>>,
                   !.error_lines = @ + 1,
                   !.log = Append(@, <<s.current_line + 1, "err">>)]

\* Mutant of SeqTooManyErrors: the breaker trips on reaching max_errors.
SeqTooManyErrorsGE(limit, error_lines) == limit > 0 /\ error_lines >= limit

\* The circuit breaker of line_map.
SeqTooManyErrors(limit, error_lines) == limit > 0 /\ error_lines > limit

SeqInit ==
    [state |-> "Idle", exception |-> "", pc |-> "loop", open |-> {}, current_line |-> 0,
     read |-> 0, items |-> <<>>,
     pending |-> [raised |-> FALSE, value |-> None],
     successful_lines |-> 0, error_lines |-> 0,
     out_file |-> <<>>, err_file |-> <<>>,
     returned |-> <<"nothing">>, calls |-> <<>>, log |-> <<>>]

\* Mutant of SeqOpen: the destination is opened for appending.
SeqOpenAppend ==
    /\ sq.state = "Idle"
    /\ sq' = IF ~source_exists
             THEN [sq EXCEPT !.state = "Failed", !.exception = "AssertionError"]
             ELSE [sq EXCEPT !.state = "Running", !.open = Handles]
    /\ UNCHANGED <<inputs, pl, finished>>

\* `assert source_file.exists()`, then the three with-statements: the source
\* is opened, the destination is opened for writing (truncated), the error
\* file is opened for appending.
SeqOpen ==
    /\ sq.state = "Idle"
    /\ sq' = IF ~source_exists
             THEN [sq EXCEPT !.state = "Failed", !.exception = "AssertionError"]
             ELSE [sq EXCEPT !.state = "Running", !.open = Handles, !.out_file = <<>>]
    /\ UNCHANGED <<inputs, pl, finished>>

\* `for nxt in in_file`: the reader passes over blank lines and parses the
\* next line, which raises when the line is not valid JSON; otherwise
\* map_func(nxt) is invoked.
SeqCall ==
    /\ sq.state = "Running" /\ sq.pc = "loop"
    /\ NextNonBlank(source, sq.read) <= Len(source)
    /\ LET k == NextNonBlank(source, sq.read)
       IN sq' = IF LoadsRaises(source[k])
                THEN [sq EXCEPT !.state = "Failed", !.exception = "JSONDecodeError",
                                !.open = {}, !.read = k]
                ELSE [sq EXCEPT !.pc = "route", !.read = k,
                                !.items = Append(@, Loads(source[k])),
                                !.pending = MapFunc(Loads(source[k])),
                                !.calls = Append(@, sq.current_line + 1)]
    /\ UNCHANGED <<inputs, pl, finished>>

\* The rest of the iteration: the outcome is routed, current_line advances
\* and the circuit breaker is tested; raising closes the three files.
SeqRoute ==
    /\ sq.state = "Running" /\ sq.pc = "route"
    /\ LET nxt == Loads(source[sq.read])
           s1 == SeqBody(sq, nxt, sq.pending)
           s2 == [s1 EXCEPT !.current_line = @ + 1, !.pc = "loop"]
       IN sq' = IF SeqTooManyErrors(max_errors, s2.error_lines)
                THEN [s2 EXCEPT !.state = "Aborted", !.exception = "ValueError",
                                !.open = {}]
                ELSE s2
    /\ UNCHANGED <<inputs, pl, finished>>

\* The source is exhausted: the files are closed and the counts returned.
SeqReturn ==
    /\ sq.state = "Running" /\ sq.pc = "loop"
    /\ NextNonBlank(source, sq.read) > Len(source)
    /\ sq' = [sq EXCEPT !.state = "Completed", !.open = {}, !.read = Len(source),
                        !.returned = <<sq.successful_lines, sq.error_lines>>]
    /\ UNCHANGED <<inputs, pl, finished>>

SeqDone == sq.state \in {"Completed", "Aborted", "Failed"}

\* ----------------------------------------------------- line_map_parallel
\* MapResult(): the defaults of the dataclass.
MapResult == [state |-> "Success", time |-> 0, result |-> None]

\* Mutant of map_wrapper: a Failure carries what map_func left, not the item.
map_wrapperKeepsValue(item) ==
    LET res == MapFunc(item)
    IN [state |-> IF res.raised THEN "Failure" ELSE "Success", time |-> 1,
        result |-> res.value]

\* _map_wrapper(item, map_func=map_func): the outcome of map_func as a
\* MapResult; the elapsed time is abstracted to one unit.
map_wrapper(item) ==
    LET res == MapFunc(item)
    IN IF ~res.raised
       THEN [state |-> "Success", time |-> 1, result |-> res.value]
       ELSE [state |-> "Failure", time |-> 1, result |-> item]

\* Mutant of ParTooManyErrors: a threshold of 0 or less means unbounded.
ParTooManyErrorsGuarded(limit, n_errors) == limit > 0 /\ n_errors > limit

\* Mutant of ParTooManyErrors: the breaker trips on reaching n_errors_max.
ParTooManyErrorsGE(limit, n_errors) == n_errors >= limit

\* Mutant of ParTooManyErrors: the breaker trips one error late.
ParTooManyErrorsLate(limit, n_errors) == n_errors > limit + 1

\* The circuit breaker of line_map_parallel.
ParTooManyErrors(limit, n_errors) == n_errors > limit

\* Mutant of ParBody: the files stay open when the breaker trips.
ParBodyLeavesOpen(p, i, r) ==
    LET p1 == [p EXCEPT !.all_times = Append(@, r.time), !.collected = i]
    IN IF r.state = "Success"
       THEN IF r.result # None
            THEN IF DumpsRaises(r.result)
                 THEN [p1 EXCEPT !.state = "Failed", !.exception = "TypeError",
                                 !.open = {}]
                 ELSE [p1 EXCEPT !.out_file = @ \o <<Dumps(r.result), NL>>,
                                 !.log = Append(@, <<i, "dest">>)]
            ELSE [p1 EXCEPT !.log = Append(@, <<i, "skip">>)]
       ELSE LET p2 == [p1 EXCEPT !.err_file = @ \o <<Dumps(r.result), NL>>,
                                 !.n_errors = @ + 1,
                                 !.log = Append(@, <<i, "err">>)]
            IN IF ParTooManyErrors(max_errors, p2.n_errors)
               THEN [p2 EXCEPT !.state = "Aborted", !.exception = "Exception"]
               ELSE p2

\* The body of `for r in result` for the MapResult r of task number i.
ParBody(p, i, r) ==
    LET p1 == [p EXCEPT !.all_times = Append(@, r.time), !.collected = i]
    IN IF r.state = "Success"
       THEN IF r.result # None
            THEN IF DumpsRaises(r.result)
                 THEN [p1 EXCEPT !.state = "Failed", !.exception = "TypeError",
                                 !.open = {}]
                 ELSE [p1 EXCEPT !.out_file = @ \o <<Dumps(r.result), NL>>,
                                 !.log = Append(@, <<i, "dest">>)]
            ELSE [p1 EXCEPT !.log = Append(@, <<i, "skip">>)]
       ELSE LET p2 == [p1 EXCEPT !.err_file = @ \o <<Dumps(r.result), NL>>,
                                 !.n_errors = @ + 1,
                                 !.log = Append(@, <<i, "err">>)]
            IN IF ParTooManyErrors(max_errors, p2.n_errors)
               THEN [p2 EXCEPT !.state = "Aborted", !.exception = "Exception",
                               !.open = {}]
               ELSE p2

\* Mutant of ParReturned: the counts are returned, as line_map does.
ParReturnedCounts(p) == <<Len(p.all_times) - p.n_errors, p.n_errors>>

\* line_map_parallel has no return statement: the caller gets None.
ParReturned(p) == None

ParInit ==
    [state |-> "Idle", exception |-> "", open |-> {}, started |-> FALSE,
     dispatched |-> 0,
     tasks |-> <<>>, collected |-> 0, n_errors |-> 0, all_times |-> <<>>,
     out_file |-> <<>>, err_file |-> <<>>,
     returned |-> <<"nothing">>, calls |-> <<>>, log |-> <<>>]

Running(p) == {i \in 1..Len(p.tasks) : p.tasks[i].st = "running"}

\* joblib dispatches pre_dispatch = 2 * n_jobs tasks before any completes.
PreDispatch(n_jobs) == 2 * n_jobs

\* joblib pulls the next item of `actual_map_func(x) for x in jsonl_src`:
\* _JSONLFile.__next__ reads a line and parses it with json.loads, which
\* raises on a blank or malformed line and ends the run; otherwise the task
\* is queued.  Nothing is queued once the source is exhausted or the run ended.
DispatchOne(p) ==
    IF p.state = "Running" /\ p.dispatched < Len(source)
    THEN IF LoadsRaises(source[p.dispatched + 1])
         THEN [p EXCEPT !.dispatched = @ + 1, !.state = "Failed",
                        !.exception = "JSONDecodeError", !.open = {}]
         ELSE [p EXCEPT !.dispatched = @ + 1,
                        !.tasks = Append(@, [st |-> "queued",
                                             item |-> Loads(source[p.dispatched + 1]),
                                             r |-> MapResult])]
    ELSE p

RECURSIVE DispatchMany(_, _)
DispatchMany(p, k) == IF k = 0 THEN p ELSE DispatchMany(DispatchOne(p), k - 1)

\* Mutant of ParOpen: the destination is opened before the source.
ParOpenDestFirst ==
    /\ SeqDone
    /\ pl.state = "Idle"
    /\ pl' = IF ~source_exists
             THEN [pl EXCEPT !.state = "Failed", !.exception = "FileNotFoundError",
                             !.out_file = <<>>]
             ELSE [pl EXCEPT !.state = "Running", !.open = Handles, !.out_file = <<>>]
    /\ UNCHANGED <<inputs, sq, finished>>

\* The three with-statements of line_map_parallel: _JSONLFile.__enter__
\* opens the source, which raises when the file is missing, before the
\* destination and the error file are opened.
ParOpen ==
    /\ SeqDone
    /\ pl.state = "Idle"
    /\ pl' = IF ~source_exists
             THEN [pl EXCEPT !.state = "Failed", !.exception = "FileNotFoundError"]
             ELSE [pl EXCEPT !.state = "Running", !.open = Handles, !.out_file = <<>>]
    /\ UNCHANGED <<inputs, sq, finished>>

\* joblib.Parallel(...)(...) starts the pool: the first pre_dispatch tasks
\* are pulled from jsonl_src before any result is asked for.
ParDispatch ==
    /\ pl.state = "Running" /\ ~pl.started
    /\ pl' = [DispatchMany(pl, PreDispatch(n_worker_tasks)) EXCEPT !.started = TRUE]
    /\ UNCHANGED <<inputs, sq, finished>>

\* A free worker takes the oldest queued task and enters _map_wrapper.
ParWorkerStart(i) ==
    /\ pl.state = "Running"
    /\ pl.tasks[i].st = "queued"
    /\ \A j \in 1..(i - 1) : pl.tasks[j].st # "queued"
    /\ Cardinality(Running(pl)) < n_worker_tasks
    /\ pl' = [pl EXCEPT !.tasks[i].st = "running", !.calls = Append(@, i)]
    /\ UNCHANGED <<inputs, sq, finished>>

\* Mutant of ParWorkerFinish: the completion callback pulls the next line
\* whether or not the run has ended.
ParWorkerFinishAlwaysDispatches(i) ==
    /\ pl.tasks[i].st = "running"
    /\ LET p1 == [pl EXCEPT !.tasks[i].st = "done",
                            !.tasks[i].r = map_wrapper(pl.tasks[i].item)]
       IN pl' = IF p1.dispatched >= Len(source) THEN p1
                ELSE IF LoadsRaises(source[p1.dispatched + 1])
                THEN [p1 EXCEPT !.dispatched = @ + 1]
                ELSE [p1 EXCEPT !.dispatched = @ + 1,
                                !.tasks = Append(@, [st |-> "queued",
                                                     item |-> Loads(source[p1.dispatched + 1]),
                                                     r |-> MapResult])]
    /\ UNCHANGED <<inputs, sq, finished>>

\* Mutant of ParWorkerFinish: the worker itself records its time in all_times.
ParWorkerFinishAppendsTime(i) ==
    /\ pl.tasks[i].st = "running"
    /\ LET p1 == [pl EXCEPT !.tasks[i].st = "done",
                            !.tasks[i].r = map_wrapper(pl.tasks[i].item),
                            !.all_times = Append(@, 1)]
       IN pl' = IF pl.state = "Running" THEN DispatchOne(p1) ELSE p1
    /\ UNCHANGED <<inputs, sq, finished>>

\* A worker returns from _map_wrapper; its MapResult goes back to the parent,
\* whose completion callback dispatches the next task while the run goes on.
\* A worker that is running when the collector raises may still complete.
ParWorkerFinish(i) ==
    /\ pl.tasks[i].st = "running"
    /\ LET p1 == [pl EXCEPT !.tasks[i].st = "done",
                            !.tasks[i].r = map_wrapper(pl.tasks[i].item)]
       IN pl' = IF pl.state = "Running" THEN DispatchOne(p1) ELSE p1
    /\ UNCHANGED <<inputs, sq, finished>>

\* Mutant of ParCollect: results are still taken after the breaker has tripped.
ParCollectAfterAbort ==
    /\ pl.state \in {"Running", "Aborted"}
    /\ pl.collected < Len(pl.tasks)
    /\ pl.tasks[pl.collected + 1].st = "done"
    /\ pl' = ParBody(pl, pl.collected + 1, pl.tasks[pl.collected + 1].r)
    /\ UNCHANGED <<inputs, sq, finished>>

\* return_as="generator" yields the results in the order of submission: the
\* collector takes the next task's MapResult once that task is done.
ParCollect ==
    /\ pl.state = "Running"
    /\ pl.collected < Len(pl.tasks)
    /\ pl.tasks[pl.collected + 1].st = "done"
    /\ pl' = ParBody(pl, pl.collected + 1, pl.tasks[pl.collected + 1].r)
    /\ UNCHANGED <<inputs, sq, finished>>

\* The generator is exhausted: the files are closed, then the timing summary
\* is logged; min(all_times) raises ValueError when no result was collected.
ParReturn ==
    /\ pl.state = "Running" /\ pl.started
    /\ pl.dispatched = Len(source)
    /\ pl.collected = pl.dispatched
    /\ pl' = IF pl.all_times = <<>>
             THEN [pl EXCEPT !.state = "Failed", !.exception = "ValueError",
                             !.open = {}]
             ELSE [pl EXCEPT !.state = "Completed", !.open = {},
                             !.returned = ParReturned(pl)]
    /\ UNCHANGED <<inputs, sq, finished>>

ParDone == pl.state \in {"Completed", "Aborted", "Failed"}

\* ------------------------------------------------------------- Init, Next
\* The source files: up to MaxLen lines, each the JSON text of a record.
\* Records are numbered in the order of their first appearance, which drops
\* only files that differ from a kept one by a renaming of the records.
InOrderOfAppearance(rs) ==
    \A i \in 1..Len(rs) :
        rs[i][2] = 1 \/ \E j \in 1..(i - 1) : rs[j][2] >= rs[i][2] - 1

Sources ==
    UNION {{[i \in 1..n |-> Dumps(rs[i])] :
               rs \in {t \in [1..n -> Records] : InOrderOfAppearance(t)}} :
           n \in 0..MaxLen}

\* What map_func does with a record that is not in the source is never
\* observed: it is fixed to "value".
MapFuncs(src) ==
    {f \in [Records -> Behaviours] :
        \A r \in Records : (\A i \in 1..Len(src) : src[i] # Dumps(r)) => f[r] = "value"}

Init ==
    /\ source \in Sources
    /\ source_exists = TRUE
    /\ finished = <<>>
    /\ map_func \in MapFuncs(source)
    /\ max_errors \in -1..MaxThreshold
    /\ n_worker_tasks \in 1..MaxWorkers
    /\ sq = SeqInit
    /\ pl = ParInit

Next ==
    \/ SeqOpen
    \/ SeqCall
    \/ SeqRoute
    \/ SeqReturn
    \/ ParOpen
    \/ ParDispatch
    \/ \E i \in 1..Len(pl.tasks) : ParWorkerStart(i)
    \/ \E i \in 1..Len(pl.tasks) : ParWorkerFinish(i)
    \/ ParCollect
    \/ ParReturn

Spec == Init /\ [][Next]_vars

\* ------------------------------------------------ files as they are on disk
\* A line of a source file: the JSON text of a record, a blank line or a
\* malformed line.
LineKinds == Records \cup {<<"blank">>, <<"malformed">>}

LineText(k) ==
    CASE k[1] = "dict" -> Dumps(k)
      [] k[1] = "blank" -> Blank
      [] OTHER -> Malformed

\* The source files of up to MaxLen lines of any kind, their records numbered
\* in the order of their first appearance.
FileSources ==
    UNION {{[i \in 1..n |-> LineText(t[i])] :
               t \in {u \in [1..n -> LineKinds] :
                         InOrderOfAppearance(SelectSeq(u, LAMBDA k : k[1] = "dict"))}} :
           n \in 0..MaxLen}

\* What an earlier run left in a destination file: a line no run here writes.
Stale == <<JsonText[<<"dict", 1>>], NL>>

\* The caller's files: the source may be missing (it then has no lines) and
\* the destination files hold stale content.
InitFiles ==
    /\ source_exists \in BOOLEAN
    /\ source \in (IF source_exists THEN FileSources ELSE {<<>>})
    /\ finished = <<>>
    /\ map_func \in MapFuncs(source)
    /\ max_errors \in -1..MaxThreshold
    /\ n_worker_tasks \in 1..MaxWorkers
    /\ sq = [SeqInit EXCEPT !.out_file = Stale]
    /\ pl = [ParInit EXCEPT !.out_file = Stale]

\* Every step of Next is taken if it stays possible: the interpreter runs the
\* caller's thread and joblib runs its workers.
SpecFiles == InitFiles /\ [][Next]_vars /\ WF_vars(Next)

\* The caller invokes line_map again with the same arguments: the files on
\* disk are what the run before left, everything else starts afresh.
SeqRerun ==
    /\ SeqDone
    /\ pl.state = "Idle"
    /\ Len(finished) < MaxRuns - 1
    /\ finished' = Append(finished, sq)
    /\ sq' = [SeqInit EXCEPT !.out_file = sq.out_file, !.err_file = sq.err_file]
    /\ UNCHANGED <<inputs, pl>>

NextTwice == Next \/ SeqRerun

SpecTwice == InitFiles /\ [][NextTwice]_vars

\* ------------------------------------------------- vocabulary of the claims
\* The i-th record of the source, as the readers deliver it.
Rec(i) == Loads(source[i])

\* The serialized records written to a file, without the line terminators.
JsonChunks(content) == SelectSeq(content, LAMBDA c : c # NL)

\* The routing events of one kind, and the events of source record i.
EventsOf(log, kind) == SelectSeq(log, LAMBDA e : e[2] = kind)

Outcomes(log, i) == {k \in 1..Len(log) : log[k][1] = i}

Invocations(calls, i) == {k \in 1..Len(calls) : calls[k] = i}

\* Records whose loop iteration has run to its end.  In line_map_parallel the
\* iteration that raised TypeError on an unserializable result did not.
SeqHandled == 1..sq.current_line

ParHandledCount == IF pl.exception = "TypeError" THEN pl.collected - 1 ELSE pl.collected

ParHandled == 1..ParHandledCount

\* map_func raises on source record i.
Raises(i) == MapFunc(Rec(i)).raised

\* line_map diverts source record i: map_func raised, or json.dumps did.
SeqRejects(i) == Raises(i) \/ DumpsRaises(MapFunc(Rec(i)).value)

\* The chunks line_map has written to a file once records 1..n are handled.
RECURSIVE SeqExpectedOut(_)
SeqExpectedOut(n) ==
    IF n = 0 THEN <<>>
    ELSE SeqExpectedOut(n - 1) \o
         (IF ~SeqRejects(n) /\ MapFunc(Rec(n)).value # None
          THEN <<Dumps(MapFunc(Rec(n)).value), NL>> ELSE <<>>)

RECURSIVE SeqExpectedErr(_)
SeqExpectedErr(n) ==
    IF n = 0 THEN <<>>
    ELSE SeqExpectedErr(n - 1) \o (IF SeqRejects(n) THEN <<Dumps(Rec(n))>> ELSE <<>>)

\* The chunks line_map_parallel has written once results 1..n are collected.
RECURSIVE ParExpectedOut(_)
ParExpectedOut(n) ==
    IF n = 0 THEN <<>>
    ELSE ParExpectedOut(n - 1) \o
         (IF ~Raises(n) /\ MapFunc(Rec(n)).value # None
          THEN <<Dumps(MapFunc(Rec(n)).value), NL>> ELSE <<>>)

RECURSIVE ParExpectedErr(_)
ParExpectedErr(n) ==
    IF n = 0 THEN <<>>
    ELSE ParExpectedErr(n - 1) \o (IF Raises(n) THEN <<Dumps(Rec(n)), NL>> ELSE <<>>)

\* The multiset of the elements of a sequence.
BagOf(seq) ==
    [x \in {seq[i] : i \in 1..Len(seq)} |-> Cardinality({i \in 1..Len(seq) : seq[i] = x})]

\* Every serialized record of the file is followed by a line terminator.
Terminated(content) ==
    \A k \in 1..Len(content) :
        content[k] # NL => (k < Len(content) /\ content[k + 1] = NL)

\* map_func raises on every record of the source.
AllFail == \A i \in 1..Len(source) : Raises(i)

\* Three records of which exactly one fails and two yield an output, the
\* threshold is 0 and there are two workers.
Scenario3 ==
    /\ Len(source) = 3 /\ max_errors = 0 /\ n_worker_tasks = 2
    /\ Cardinality({i \in 1..3 : Raises(i)}) = 1
    /\ \A i \in 1..3 : ~Raises(i) => map_func[Rec(i)] = "value"

FailedOne == CHOOSE i \in 1..Len(source) : Raises(i)

\* ------------------------------------------------------------------ claims
\* C1: in both mappers every record whose iteration has ended has exactly one
\* outcome (a destination line, a skip, or an error-file record) and no record
\* ever has two; the files hold one serialized record per "dest" and per
\* "err" outcome; no record is handed to map_func twice; and on a run that
\* completes normally all N records have their outcome and exactly one
\* invocation of map_func each.
C1_ExactlyOneOutcome ==
    /\ \A i \in 1..Len(source) :
         /\ Cardinality(Outcomes(sq.log, i)) = (IF i \in SeqHandled THEN 1 ELSE 0)
         /\ Cardinality(Outcomes(pl.log, i)) = (IF i \in ParHandled THEN 1 ELSE 0)
         /\ Cardinality(Invocations(sq.calls, i)) <= 1
         /\ Cardinality(Invocations(pl.calls, i)) <= 1
    /\ Len(JsonChunks(sq.out_file)) = Len(EventsOf(sq.log, "dest"))
    /\ Len(JsonChunks(sq.err_file)) = Len(EventsOf(sq.log, "err"))
    /\ Len(JsonChunks(pl.out_file)) = Len(EventsOf(pl.log, "dest"))
    /\ Len(JsonChunks(pl.err_file)) = Len(EventsOf(pl.log, "err"))
    /\ sq.state = "Completed" =>
         /\ SeqHandled = 1..Len(source)
         /\ \A i \in 1..Len(source) : Cardinality(Invocations(sq.calls, i)) = 1
    /\ pl.state = "Completed" =>
         /\ ParHandled = 1..Len(source)
         /\ \A i \in 1..Len(source) : Cardinality(Invocations(pl.calls, i)) = 1

\* Both runs completed over a three-record source that had a destination
\* line, a skip and an error, with two workers.
C1_Witness ==
    /\ sq.state = "Completed" /\ pl.state = "Completed"
    /\ Len(source) = 3 /\ n_worker_tasks = 2
    /\ \A kind \in {"dest", "skip", "err"} :
         Len(EventsOf(sq.log, kind)) > 0 /\ Len(EventsOf(pl.log, kind)) > 0

\* C2: line_map aborts exactly when max_errors > 0 and the error counter
\* exceeds max_errors; a run that ends with at most max_errors errors, or any
\* run with max_errors <= 0, completes and returns (records not rejected,
\* records rejected); at an abort the destination and the error file hold
\* everything written for the records handled so far.
C2_SeqAbortIff ==
    /\ sq.state = "Aborted" <=> (max_errors > 0 /\ sq.error_lines > max_errors)
    /\ sq.state = "Aborted" =>
         /\ sq.exception = "ValueError"
         /\ sq.error_lines = max_errors + 1
         /\ sq.out_file = SeqExpectedOut(sq.current_line)
         /\ sq.err_file = SeqExpectedErr(sq.current_line)
    /\ sq.state = "Completed" =>
         /\ sq.current_line = Len(source)
         /\ sq.returned =
              <<Cardinality({i \in 1..Len(source) : ~SeqRejects(i)}),
                Cardinality({i \in 1..Len(source) : SeqRejects(i)})>>
    /\ (SeqDone /\ max_errors <= 0) => sq.state = "Completed"

\* 3 records, 1 failure, max_errors = 1: the run completed and returned (2, 1).
C2_Witness ==
    /\ sq.state = "Completed" /\ max_errors = 1 /\ Len(source) = 3
    /\ sq.returned = <<2, 1>>

\* An aborted run that had written to both files.
C2_WitnessAbort ==
    /\ sq.state = "Aborted" /\ sq.out_file # <<>> /\ sq.err_file # <<>>

\* C3 (as stated): in the scenario the parallel run completes normally with
\* the two outputs in the destination, the failed record in the error file
\* and the result (2, 1).
C3_Original ==
    (Scenario3 /\ ParDone) =>
        /\ pl.state = "Completed"
        /\ Len(Lines(pl.out_file)) = 2
        /\ Lines(pl.err_file) = <<source[FailedOne]>>
        /\ pl.returned = <<2, 1>>

\* C3 (amended): with n_errors_max = 0 the first failure trips the breaker:
\* in the scenario the parallel run aborts when the collector handles the
\* failed record; the failed original record is in the error file, the
\* destination holds the outputs of the records before it, nothing is returned.
C3_ParZeroThresholdAborts ==
    (Scenario3 /\ (ParDone \/ pl.n_errors > 0)) =>
        /\ pl.state = "Aborted" /\ pl.exception = "Exception"
        /\ pl.n_errors = 1 /\ pl.collected = FailedOne
        /\ Lines(pl.err_file) = <<source[FailedOne]>>
        /\ pl.out_file = ParExpectedOut(FailedOne - 1)
        /\ pl.returned = <<"nothing">>

\* The scenario's run has ended, with one output already in the destination.
C3_Witness == Scenario3 /\ ParDone /\ Len(Lines(pl.out_file)) >= 1

\* C4 (as stated): an empty source completes normally in both modes with
\* result (0, 0), empty destination and error file, and no exception.
C4_Original ==
    Len(source) = 0 =>
        /\ SeqDone =>
             /\ sq.state = "Completed" /\ sq.returned = <<0, 0>>
             /\ sq.out_file = <<>> /\ sq.err_file = <<>>
        /\ ParDone =>
             /\ pl.state = "Completed" /\ pl.exception = ""
             /\ pl.out_file = <<>> /\ pl.err_file = <<>>

Prefix(n) == SubSeq(source, 1, n)

C7_Original ==
    /\ Terminated(sq.err_file) /\ Len(Lines(sq.err_file)) = sq.error_lines
    /\ Terminated(pl.err_file) /\ Len(Lines(pl.err_file)) = pl.n_errors

\* C8: what either mapper writes to the error file is the serialization of
\* the original record as read from the source, record by record, and the
\* MapResult of a failed task carries the original record.
C8_ErrorSinkOriginal ==
    /\ sq.err_file = SeqExpectedErr(sq.current_line)
    /\ pl.err_file = ParExpectedErr(ParHandledCount)
    /\ \A i \in 1..Len(pl.tasks) :
         (pl.tasks[i].st = "done" /\ pl.tasks[i].r.state = "Failure") =>
             /\ pl.tasks[i].r.result = Rec(i)
             /\ pl.tasks[i].r.result # MapFunc(Rec(i)).value

\* Both error files have received a record.
C8_Witness ==
    /\ sq.err_file # <<>> /\ pl.err_file # <<>>
    /\ \E i \in 1..Len(pl.tasks) : pl.tasks[i].r.state = "Failure"

\* C9 (as stated): when both runs complete, the multisets of destination
\* lines and of error-file lines of the two mappers are equal.
C9_Original ==
    (sq.state = "Completed" /\ pl.state = "Completed") =>
        /\ BagOf(Lines(sq.out_file)) = BagOf(Lines(pl.out_file))
        /\ BagOf(Lines(sq.err_file)) = BagOf(Lines(pl.err_file))

\* C10: line_map writes the destination in source order: the destination is
\* the outputs of the records handled so far, in their order in the source;
\* map_func is invoked on the records in source order, on record j only
\* after the outcomes of all records before j have been routed.
C10_SeqOrder ==
    /\ sq.out_file = SeqExpectedOut(sq.current_line)
    /\ Len(sq.calls) = sq.current_line + (IF sq.pc = "route" THEN 1 ELSE 0)
    /\ \A k \in 1..Len(sq.calls) : sq.calls[k] = k
    /\ \A k \in 1..Len(sq.log) : sq.log[k][1] = k
    /\ Len(sq.log) = sq.current_line

\* Two different outputs are in the destination.
C10_Witness ==
    /\ Len(Lines(sq.out_file)) >= 2
    /\ Lines(sq.out_file)[1] # Lines(sq.out_file)[2]

\* map_func returns a record or None for every record of the source.
NeverFails == \A i \in 1..Len(source) : map_func[Rec(i)] \in {"value", "none"}

\* C11: when map_func never fails, line_map writes nothing to the error file
\* and counts no error; on completion it returns (N, 0) and the destination
\* holds exactly one line per record whose result is not None: a None result
\* is counted as a success and writes nothing.
C11_SeqAllSucceed ==
    NeverFails =>
        /\ sq.err_file = <<>> /\ sq.error_lines = 0
        /\ sq.successful_lines = sq.current_line
        /\ sq.state # "Aborted"
        /\ sq.state = "Completed" =>
             /\ sq.returned = <<Len(source), 0>>
             /\ Len(Lines(sq.out_file)) =
                    Cardinality({i \in 1..Len(source) : map_func[Rec(i)] = "value"})
             /\ Terminated(sq.out_file)

\* A completed run over three records, some mapped to None and some not.
C11_Witness ==
    /\ NeverFails /\ sq.state = "Completed" /\ Len(source) = 3
    /\ Len(Lines(sq.out_file)) \in {1, 2}

\* C12: when line_map is run again on the same source, destination and
\* map_func, the destination after the later run is identical to the
\* destination after each earlier run, however the runs ended; the later run
\* returns what the earlier one returned.
C12_RerunSameDestination ==
    SeqDone =>
        \A k \in 1..Len(finished) :
            /\ sq.out_file = finished[k].out_file
            /\ sq.state = finished[k].state
            /\ sq.returned = finished[k].returned

\* A second run has completed and has written two lines or more.
C12_Witness ==
    /\ Len(finished) = 1 /\ sq.state = "Completed"
    /\ finished[1].state = "Completed"
    /\ Len(Lines(sq.out_file)) >= 2

\* C13: with the source file missing, each mapper fails in its first step:
\* it is never running, map_func is never invoked, no line is read, no file
\* is opened, and the destination and the error file keep their content.
C13_MissingSource ==
    ~source_exists =>
        /\ sq.state \in {"Idle", "Failed"} /\ pl.state \in {"Idle", "Failed"}
        /\ sq.calls = <<>> /\ sq.read = 0 /\ sq.current_line = 0
        /\ pl.calls = <<>> /\ pl.dispatched = 0 /\ pl.tasks = <<>>
        /\ sq.open = {} /\ pl.open = {}
        /\ sq.out_file = Stale /\ pl.out_file = Stale
        /\ sq.err_file = <<>> /\ pl.err_file = <<>>
        /\ sq.log = <<>> /\ pl.log = <<>>

\* Both mappers have been called on a missing source and have failed.
C13_Witness == ~source_exists /\ sq.state = "Failed" /\ pl.state = "Failed"

\* The lines of the source that are not blank, and their records when each
\* of them is valid JSON.
NonBlank == SelectSeq(source, LAMBDA l : l # Blank)

NoMalformed == \A i \in 1..Len(source) : source[i] # Malformed

Parsed == [k \in 1..Len(NonBlank) |-> Loads(NonBlank[k])]

IsPrefix(a, b) == Len(a) <= Len(b) /\ \A k \in 1..Len(a) : a[k] = b[k]

\* The records line_map_parallel has passed to map_func, in the order in
\* which the workers took them.
ParItems == [k \in 1..Len(pl.calls) |-> pl.tasks[pl.calls[k]].item]

\* C14: on a source whose non-blank lines are all valid JSON, no mapper fails
\* on reading a line, the records passed to map_func are the parsed
\* non-blank lines in file order, and a run that is not cut short by the
\* circuit breaker passes all of them.  (Violated by line_map_parallel.)
C14_Original ==
    (source_exists /\ NoMalformed) =>
        /\ sq.state # "Failed"
        /\ IsPrefix(sq.items, Parsed)
        /\ sq.state = "Completed" => sq.items = Parsed
        /\ pl.exception # "JSONDecodeError"
        /\ IsPrefix(ParItems, Parsed)
        /\ pl.state = "Completed" => ParItems = Parsed

\* The sequential half of C14 alone.
C14_SeqOnly ==
    (source_exists /\ NoMalformed) =>
        /\ sq.state # "Failed"
        /\ IsPrefix(sq.items, Parsed)
        /\ sq.state = "Completed" => sq.items = Parsed

\* C15: once line_map_parallel has aborted, no step changes the destination,
\* the error file, the error counter or the collector's position, whatever
\* the workers still do; in the aborted state the files hold everything
\* written for the collected results, the record that tripped the breaker
\* being the last line of the error file.
C15_NoWriteAfterAbort ==
    /\ [](pl.state = "Aborted" =>
            /\ Raises(pl.collected)
            /\ pl.err_file = ParExpectedErr(pl.collected)
            /\ pl.out_file = ParExpectedOut(pl.collected))
    /\ [][pl.state = "Aborted" =>
            /\ pl'.state = "Aborted"
            /\ pl'.out_file = pl.out_file /\ pl'.err_file = pl.err_file
            /\ pl'.n_errors = pl.n_errors /\ pl'.collected = pl.collected
            /\ pl'.log = pl.log]_vars

\* After the abort one worker is still running and another has completed a
\* result that was never collected.
C15_Witness ==
    /\ pl.state = "Aborted"
    /\ \E i \in 1..Len(pl.tasks) : pl.tasks[i].st = "running"
    /\ \E i \in (pl.collected + 1)..Len(pl.tasks) : pl.tasks[i].st = "done"

\* A step of a worker of line_map_parallel.
WorkerStep == \E i \in 1..Len(pl.tasks) : ParWorkerStart(i) \/ ParWorkerFinish(i)

\* The destination, the error file, the error counter and the timing list.
CollectorState(p) == <<p.out_file, p.err_file, p.n_errors, p.all_times>>

\* C16: a worker step leaves the destination, the error file, the error
\* counter and the timing list of line_map_parallel as they are; a step that
\* changes one of them is a step of the collector (or the opening of the
\* files), of which there is one at a time.
C16_SingleWriter ==
    [][/\ WorkerStep => CollectorState(pl') = CollectorState(pl)
       /\ CollectorState(pl') # CollectorState(pl) => (ParCollect \/ ParOpen)]_vars

\* Two workers are inside _map_wrapper while the collector has written a line.
C16_Witness ==
    /\ Cardinality(Running(pl)) = 2
    /\ pl.collected >= 1 /\ pl.out_file \o pl.err_file # <<>>

\* The records on which map_func raised, among the first n passed to it.
RaisedAmong(items, n) == {i \in 1..n : MapFunc(items[i]).raised}

\* The records line_map_parallel has queued, in file order.
ParQueued == [i \in 1..Len(pl.tasks) |-> pl.tasks[i].item]

\* C17: in both mappers a record is written to the error file only if
\* map_func raised on it, the error counter counts exactly those records, and
\* a result that json.dumps rejects ends the run in failure.  (Violated by
\* line_map.)
C17_Original ==
    /\ \A k \in 1..Len(sq.log) :
           sq.log[k][2] = "err" => MapFunc(sq.items[sq.log[k][1]]).raised
    /\ sq.error_lines = Cardinality(RaisedAmong(sq.items, sq.current_line))
    /\ \A i \in 1..sq.current_line :
           DumpsRaises(MapFunc(sq.items[i]).value) => sq.state = "Failed"
    /\ \A k \in 1..Len(pl.log) :
           pl.log[k][2] = "err" => MapFunc(ParQueued[pl.log[k][1]]).raised
    /\ pl.n_errors = Cardinality(RaisedAmong(ParQueued, pl.collected))
    /\ \A i \in 1..pl.collected :
           DumpsRaises(MapFunc(ParQueued[i]).value) => pl.state = "Failed"
    /\ sq.exception = "JSONDecodeError" =>
           sq.error_lines = Cardinality(RaisedAmong(sq.items, Len(sq.items)))
    /\ pl.exception = "JSONDecodeError" => pl.state = "Failed"

\* C18: in every terminal state of a run, completed, aborted or failed, no
\* file of the run is open; while it is running its three files are open.
C18_HandlesClosed ==
    /\ SeqDone => sq.open = {}
    /\ ParDone => pl.open = {}
    /\ sq.state = "Running" => sq.open = Handles
    /\ pl.state = "Running" => pl.open = Handles
    /\ sq.state = "Idle" => sq.open = {}
    /\ pl.state = "Idle" => pl.open = {}

\* Both runs have failed on a malformed line after reading a valid one.
C18_Witness ==
    /\ sq.state = "Failed" /\ sq.exception = "JSONDecodeError" /\ sq.current_line >= 1
    /\ pl.state = "Failed" /\ pl.exception = "JSONDecodeError" /\ Len(pl.tasks) >= 1
    /\ sq.open = {} /\ pl.open = {}

\* The changes of state of a run.  A run on a missing source fails in the
\* step that starts it.
Lifecycle ==
    {<<"Idle", "Running">>, <<"Idle", "Failed">>, <<"Running", "Completed">>,
     <<"Running", "Aborted">>, <<"Running", "Failed">>}

\* C19: each run changes state only along Idle -> Running -> Completed,
\* Aborted or Failed; lines are read and map_func is invoked only by a step
\* taken in Running; a terminal state is never left; and every run reaches a
\* terminal state.
C19_Lifecycle ==
    /\ [][/\ sq'.state # sq.state => <<sq.state, sq'.state>> \in Lifecycle
          /\ pl'.state # pl.state => <<pl.state, pl'.state>> \in Lifecycle
          /\ (sq'.read # sq.read \/ sq'.calls # sq.calls) => sq.state = "Running"
          /\ (pl'.dispatched # pl.dispatched \/ pl'.calls # pl.calls)
                 => pl.state = "Running"
          /\ SeqDone => sq'.state = sq.state
          /\ ParDone => pl'.state = pl.state]_vars
    /\ <>[](SeqDone /\ ParDone)

\* line_map has completed and line_map_parallel has been aborted while a
\* worker was still running.
C19_Witness ==
    /\ sq.state = "Completed" /\ pl.state = "Aborted"
    /\ sq.read = Len(source) /\ Len(source) >= 3
    /\ \E i \in 1..Len(pl.tasks) : pl.tasks[i].st = "running"

\* What C20 says of one run with bound m: the counter equals the number of
\* records in the error file, it is at most m + 1, the run is aborted exactly
\* when an error has brought it to m + 1, and a completed run has at most m.
BoundedBy(m, counter, err_file, state) ==
    /\ counter = Len(JsonChunks(err_file))
    /\ counter <= m + 1
    /\ state = "Aborted" <=> (counter >= 1 /\ counter = m + 1)
    /\ state = "Completed" => counter <= m

\* C20 as stated: line_map with max_errors = m > 0 and line_map_parallel with
\* n_errors_max = m, whatever m is.  (Violated by a negative n_errors_max.)
C20_Original ==
    /\ max_errors > 0 => BoundedBy(max_errors, sq.error_lines, sq.err_file, sq.state)
    /\ BoundedBy(max_errors, pl.n_errors, pl.err_file, pl.state)

\* The bound line_map_parallel acts on: a negative n_errors_max tolerates no
\* error, as 0 does.
ParBound == IF max_errors < 0 THEN 0 ELSE max_errors

\* C20: with m = max_errors > 0 in line_map, and m = n_errors_max, or 0 when
\* n_errors_max is negative, in line_map_parallel: the error counter never
\* decreases, equals the number of records this run wrote to the error file
\* and is at most m + 1; the run is aborted in the step in which the counter
\* becomes m + 1 and in no other; an aborted run has written m + 1 error
\* records and a completed one at most m.
C20_ErrorCounter ==
    /\ [](/\ max_errors > 0 =>
                BoundedBy(max_errors, sq.error_lines, sq.err_file, sq.state)
          /\ BoundedBy(ParBound, pl.n_errors, pl.err_file, pl.state))
    /\ [][/\ sq'.error_lines >= sq.error_lines
          /\ pl'.n_errors >= pl.n_errors
          /\ sq'.error_lines <= sq.error_lines + 1
          /\ pl'.n_errors <= pl.n_errors + 1
          /\ (sq'.state = "Aborted" /\ sq.state # "Aborted") =>
                 sq'.error_lines = sq.error_lines + 1
          /\ (pl'.state = "Aborted" /\ pl.state # "Aborted") =>
                 pl'.n_errors = pl.n_errors + 1]_vars

\* Both runs have been aborted on their second error with a bound of 1 or more.
C20_Witness ==
    /\ max_errors >= 1
    /\ sq.state = "Aborted" /\ sq.error_lines = max_errors + 1
    /\ pl.state = "Aborted" /\ pl.n_errors = max_errors + 1
====
